---- MODULE Spec2Model ----
(***************************************************************************)
(* Model of release/merge_release.py: main() walks release/**/*-mal.json,  *)
(* compacts every season document into result[year][season_key] and prints *)
(* the sorted mapping once.  Strings that the regular expression inspects  *)
(* are sequences of one-character strings; JSON scalars are tagged records *)
(* so that absent, null, numbers and strings stay distinct.                *)
(***************************************************************************)
EXTENDS Integers, Sequences, FiniteSets, TLC

\* ------------------------------------------------------------------------
\* Bounds of the model
\* ------------------------------------------------------------------------
\* files yielded by the glob when the tree holds the season documents
MaxFiles == 3
\* files yielded by the glob when the tree holds the item documents
MaxItemFiles == 1
\* longest `items` list of an item document
MaxItems == 3

\* ------------------------------------------------------------------------
\* JSON scalars: dict.get(key) gives None for a missing key
\* ------------------------------------------------------------------------
JAbsent == [kind |-> "absent", n |-> 0, s |-> ""]
JNull == [kind |-> "null", n |-> 0, s |-> ""]
JInt(i) == [kind |-> "int", n |-> i, s |-> ""]
JStr(t) == [kind |-> "str", n |-> 0, s |-> t]

Get(v) == IF v.kind = "absent" THEN JNull ELSE v

\* Python truth value of a scalar: None, 0 and "" are falsy
Truthy(v) ==
    CASE v.kind = "int" -> v.n # 0
      [] v.kind = "str" -> v.s # ""
      [] OTHER -> FALSE

\* ------------------------------------------------------------------------
\* Characters and the season pattern
\* ------------------------------------------------------------------------
Digits == {"0", "1", "2", "3", "4", "5", "6", "7", "8", "9"}
Letters == {"a", "b", "c", "d", "e", "f", "g", "h", "i", "j", "k", "l", "m",
            "n", "o", "p", "q", "r", "s", "t", "u", "v", "w", "x", "y", "z"}
\* the characters of the model in code point order
Alphabet == <<"-", "0", "1", "2", "3", "4", "5", "6", "7", "8", "9", "_",
              "a", "b", "c", "d", "e", "f", "g", "h", "i", "j", "k", "l", "m",
              "n", "o", "p", "q", "r", "s", "t", "u", "v", "w", "x", "y", "z">>
Ord(c) == CHOOSE i \in 1..Len(Alphabet) : Alphabet[i] = c

\* \d and \w on the characters of the model
WordChars == Digits \cup Letters \cup {"_"}
IsDigit(c) == c \in Digits
IsWord(c) == c \in WordChars

\* str < str of Python: lexicographic on code points
RECURSIVE StrLess(_, _)
StrLess(a, b) ==
    IF b = <<>> THEN FALSE
    ELSE IF a = <<>> THEN TRUE
    ELSE IF Head(a) = Head(b) THEN StrLess(Tail(a), Tail(b))
    ELSE Ord(Head(a)) < Ord(Head(b))

\* re.match(r"(\d{4})-(\w+)", season): anchored at the start only
Matches(season) ==
    /\ Len(season) >= 6
    /\ \A i \in 1..4 : IsDigit(season[i])
    /\ season[5] = "-"
    /\ IsWord(season[6])

\* end of the greedy \w+ group
WordEnd(season) ==
    CHOOSE j \in 6..Len(season) :
        /\ \A i \in 6..j : IsWord(season[i])
        /\ (j = Len(season) \/ ~IsWord(season[j + 1]))

\* match.groups()
Year(season) == SubSeq(season, 1, 4)
SeasonName(season) == SubSeq(season, 6, WordEnd(season))

sWinter == <<"w", "i", "n", "t", "e", "r">>
sSpring == <<"s", "p", "r", "i", "n", "g">>
sSummer == <<"s", "u", "m", "m", "e", "r">>
sFall == <<"f", "a", "l", "l">>

\* swaps two codes of the table
SeasonKeySwapped(season_name) ==
    CASE season_name = sWinter -> <<"1">>
      [] season_name = sSpring -> <<"7">>
      [] season_name = sSummer -> <<"4">>
      [] season_name = sFall -> <<"1", "0">>
      [] OTHER -> season_name

\* SEASON_MAP.get(season_name, season_name)
SeasonKey(season_name) ==
    CASE season_name = sWinter -> <<"1">>
      [] season_name = sSpring -> <<"4">>
      [] season_name = sSummer -> <<"7">>
      [] season_name = sFall -> <<"1", "0">>
      [] OTHER -> season_name

\* RATING_MAP.get(rating, rating)
RatingCode(rating) ==
    IF rating.kind # "str" THEN rating
    ELSE CASE rating.s = "general" -> JStr("gnr")
           [] rating.s = "kids" -> JStr("kids")
           [] rating.s = "r18" -> JStr("r18")
           [] OTHER -> rating

SKIP_STATUS == {"unconfirmed", "error"}

\* ------------------------------------------------------------------------
\* The item loop
\* ------------------------------------------------------------------------
\* drops only on status
SkipItemStatusOnly(item) ==
    item.status.kind = "str" /\ item.status.s \in SKIP_STATUS

\* the two `continue` tests of the item loop
SkipItem(item) ==
    \/ item.status.kind = "str" /\ item.status.s \in SKIP_STATUS
    \/ ~Truthy(Get(item.bgm_id))

\* item.get("mal", {}) is None for an explicit null, and None.get raises
MalRaises(item) == item.mal.kind = "null"

\* the dictionary appended for an item that is kept
CompactItem(item) ==
    LET media_type == IF item.mal.kind = "object"
                      THEN Get(item.mal.media_type) ELSE JNull
        rating == IF item.mal.kind = "object"
                  THEN Get(item.mal.rating) ELSE JNull
    IN [id |-> item.bgm_id, m |-> media_type, r |-> RatingCode(rating)]

\* inserts at the front
RECURSIVE ItemLoopPrepend(_, _)
ItemLoopPrepend(todo, items) ==
    IF todo = <<>> THEN [raised |-> FALSE, items |-> items]
    ELSE LET item == Head(todo)
         IN IF SkipItem(item) THEN ItemLoopPrepend(Tail(todo), items)
            ELSE IF MalRaises(item) THEN [raised |-> TRUE, items |-> <<>>]
            ELSE ItemLoopPrepend(Tail(todo), <<CompactItem(item)>> \o items)

\* for item in data.get("items", []): ... items.append({...})
RECURSIVE ItemLoop(_, _)
ItemLoop(todo, items) ==
    IF todo = <<>> THEN [raised |-> FALSE, items |-> items]
    ELSE LET item == Head(todo)
         IN IF SkipItem(item) THEN ItemLoop(Tail(todo), items)
            ELSE IF MalRaises(item) THEN [raised |-> TRUE, items |-> <<>>]
            ELSE ItemLoop(Tail(todo), Append(items, CompactItem(item)))

\* ------------------------------------------------------------------------
\* Python dicts: insertion ordered, a sequence of [k, v] entries
\* ------------------------------------------------------------------------
Keys(d) == [i \in 1..Len(d) |-> d[i].k]
HasKey(d, key) == \E i \in 1..Len(d) : d[i].k = key
Lookup(d, key) == d[CHOOSE i \in 1..Len(d) : d[i].k = key].v

\* d[key] = value: an existing key keeps its position
DictSet(d, key, value) ==
    IF HasKey(d, key)
    THEN [i \in 1..Len(d) |-> IF d[i].k = key THEN [k |-> key, v |-> value] ELSE d[i]]
    ELSE Append(d, [k |-> key, v |-> value])

\* extends the list already stored
StoreMerging(result, year, season_key, items) ==
    LET seasons == IF HasKey(result, year) THEN Lookup(result, year) ELSE <<>>
        old == IF HasKey(seasons, season_key) THEN Lookup(seasons, season_key) ELSE <<>>
    IN DictSet(result, year, DictSet(seasons, season_key, old \o items))

\* if year not in result: result[year] = {}; result[year][season_key] = items
Store(result, year, season_key, items) ==
    LET seasons == IF HasKey(result, year) THEN Lookup(result, year) ELSE <<>>
    IN DictSet(result, year, DictSet(seasons, season_key, items))

\* ------------------------------------------------------------------------
\* One iteration of the file loop
\* ------------------------------------------------------------------------
SeasonOf(data) == IF data.season.kind = "absent" THEN <<>> ELSE data.season.s
ItemsOf(data) == IF data.items.kind = "absent" THEN <<>> ELSE data.items.l

\* a file that does not parse is passed over
LoopBodySkipMalformed(result, data) ==
    IF ~data.valid_json \/ ~Matches(SeasonOf(data))
    THEN [raised |-> FALSE, result |-> result]
    ELSE LET season == SeasonOf(data)
             loop == ItemLoop(ItemsOf(data), <<>>)
         IN IF loop.raised THEN [raised |-> TRUE, result |-> result]
            ELSE [raised |-> FALSE,
                  result |-> Store(result, Year(season),
                                   SeasonKey(SeasonName(season)), loop.items)]

\* a file without kept items stores nothing
LoopBodyDropEmpty(result, data) ==
    IF ~data.valid_json THEN [raised |-> TRUE, result |-> result]
    ELSE IF ~Matches(SeasonOf(data)) THEN [raised |-> FALSE, result |-> result]
    ELSE LET season == SeasonOf(data)
             loop == ItemLoop(ItemsOf(data), <<>>)
         IN IF loop.raised THEN [raised |-> TRUE, result |-> result]
            ELSE IF loop.items = <<>> THEN [raised |-> FALSE, result |-> result]
            ELSE [raised |-> FALSE,
                  result |-> Store(result, Year(season),
                                   SeasonKey(SeasonName(season)), loop.items)]

\* json.load, the season match, the item loop and the store
LoopBody(result, data) ==
    IF ~data.valid_json THEN [raised |-> TRUE, result |-> result]
    ELSE IF ~Matches(SeasonOf(data)) THEN [raised |-> FALSE, result |-> result]
    ELSE LET season == SeasonOf(data)
             loop == ItemLoop(ItemsOf(data), <<>>)
         IN IF loop.raised THEN [raised |-> TRUE, result |-> result]
            ELSE [raised |-> FALSE,
                  result |-> Store(result, Year(season),
                                   SeasonKey(SeasonName(season)), loop.items)]

\* ------------------------------------------------------------------------
\* The final sort
\* ------------------------------------------------------------------------
\* unknown codes rank first
SeasonOrderDefaultFirst(x) ==
    CASE x = <<"1">> -> 0
      [] x = <<"4">> -> 1
      [] x = <<"7">> -> 2
      [] x = <<"1", "0">> -> 3
      [] OTHER -> 0 - 1

\* season_order.get(x, 99)
SeasonOrder(x) ==
    CASE x = <<"1">> -> 0
      [] x = <<"4">> -> 1
      [] x = <<"7">> -> 2
      [] x = <<"1", "0">> -> 3
      [] OTHER -> 99

\* sorted() is stable: x goes after every element that is not greater
RECURSIVE InsertYear(_, _)
InsertYear(sorted, x) ==
    IF sorted = <<>> THEN <<x>>
    ELSE IF StrLess(x, Head(sorted)) THEN <<x>> \o sorted
    ELSE <<Head(sorted)>> \o InsertYear(Tail(sorted), x)

RECURSIVE SortedYears(_)
SortedYears(keys) ==
    IF keys = <<>> THEN <<>>
    ELSE InsertYear(SortedYears(SubSeq(keys, 1, Len(keys) - 1)), keys[Len(keys)])

RECURSIVE InsertSeason(_, _)
InsertSeason(sorted, x) ==
    IF sorted = <<>> THEN <<x>>
    ELSE IF SeasonOrder(x) < SeasonOrder(Head(sorted)) THEN <<x>> \o sorted
    ELSE <<Head(sorted)>> \o InsertSeason(Tail(sorted), x)

RECURSIVE SortedSeasons(_)
SortedSeasons(keys) ==
    IF keys = <<>> THEN <<>>
    ELSE InsertSeason(SortedSeasons(SubSeq(keys, 1, Len(keys) - 1)), keys[Len(keys)])

\* sorted_result, the mapping handed to json.dumps
SortedResult(result) ==
    LET years == SortedYears(Keys(result))
    IN [i \in 1..Len(years) |->
          LET seasons == Lookup(result, years[i])
              ks == SortedSeasons(Keys(seasons))
          IN [k |-> years[i],
              v |-> [j \in 1..Len(ks) |-> [k |-> ks[j], v |-> Lookup(seasons, ks[j])]]]]

\* ------------------------------------------------------------------------
\* The documents under release/
\* ------------------------------------------------------------------------
SeqsUpTo(S, n) == UNION {[1..m -> S] : m \in 0..n}

MalAbsent == [kind |-> "absent", media_type |-> JAbsent, rating |-> JAbsent]
MalNull == [kind |-> "null", media_type |-> JAbsent, rating |-> JAbsent]
MalObject(media_type, rating) ==
    [kind |-> "object", media_type |-> media_type, rating |-> rating]

Statuses == {JAbsent, JNull, JStr("confirmed"), JStr("unconfirmed"), JStr("error")}
BgmIds == {JAbsent, JNull, JInt(0), JStr(""), JInt(530110)}
Mals == {MalAbsent, MalNull, MalObject(JAbsent, JAbsent),
         MalObject(JStr("tv"), JStr("general")),
         MalObject(JNull, JStr("unknown_value")),
         MalObject(JStr("movie"), JNull)}
ItemProduct == [status : Statuses, bgm_id : BgmIds, mal : Mals]

ItemTv == [status |-> JStr("confirmed"), bgm_id |-> JInt(530110),
           mal |-> MalObject(JStr("tv"), JStr("general"))]
ItemMovie == [status |-> JAbsent, bgm_id |-> JInt(530110),
              mal |-> MalObject(JStr("movie"), JStr("kids"))]
ItemError == [status |-> JStr("error"), bgm_id |-> JInt(1),
              mal |-> MalObject(JAbsent, JAbsent)]
ItemNullMal == [status |-> JStr("confirmed"), bgm_id |-> JInt(3), mal |-> MalNull]
ItemUnknown == [status |-> JStr("confirmed"), bgm_id |-> JInt(2),
                mal |-> MalObject(JNull, JStr("unknown_value"))]
ListItems == {ItemTv, ItemMovie, ItemError}

Str(s) == [kind |-> "str", s |-> s]
NoSeason == [kind |-> "absent", s |-> <<>>]
List(l) == [kind |-> "list", l |-> l]
NoItems == [kind |-> "absent", l |-> <<>>]

y2024 == <<"2", "0", "2", "4", "-">>
y2025 == <<"2", "0", "2", "5", "-">>
y2026 == <<"2", "0", "2", "6", "-">>
\* seasons that resolve to the key "1" of 2025
WinterStrings ==
    {Str(y2025 \o sWinter), Str(y2025 \o <<"1">>),
     Str(y2025 \o sWinter \o <<"-", "x">>)}
SeasonStrings ==
    WinterStrings \cup
    {Str(y2025 \o sFall), Str(y2025 \o sSummer), Str(y2024 \o sSpring),
     Str(y2025 \o <<"s", "p">>), Str(y2025 \o <<"o", "v", "a">>),
     Str(<<"n", "o", "t", "-", "a", "-">> \o <<"s", "e", "a", "s", "o", "n">>),
     NoSeason}

Malformed == [valid_json |-> FALSE, season |-> NoSeason, items |-> NoItems]

\* season documents: every season string without items, the colliding seasons
\* with a kept and with a dropped item, one more season with a kept item, a file
\* that does not parse and one whose item has mal null
SeasonDocs ==
    {[valid_json |-> TRUE, season |-> s, items |-> NoItems] : s \in SeasonStrings}
    \cup {[valid_json |-> TRUE, season |-> s, items |-> l] :
             s \in WinterStrings,
             l \in {List(<<ItemTv>>), List(<<ItemError>>)}}
    \cup {Malformed,
          [valid_json |-> TRUE, season |-> Str(y2025 \o sFall),
           items |-> List(<<ItemUnknown>>)],
          [valid_json |-> TRUE, season |-> Str(y2025 \o sFall),
           items |-> List(<<ItemNullMal>>)]}

\* item documents: one season, every item alone and short lists of a few items
ItemDocs ==
    {[valid_json |-> TRUE, season |-> Str(y2026 \o sWinter), items |-> l] :
        l \in {List(<<i>>) : i \in ItemProduct}
              \cup {List(q) : q \in SeqsUpTo(ListItems, MaxItems)}
              \cup {NoItems}}
    \cup {Malformed}

Docs(tree) == IF tree = "seasons" THEN SeasonDocs ELSE ItemDocs
FileCap(tree) == IF tree = "seasons" THEN MaxFiles ELSE MaxItemFiles

\* ------------------------------------------------------------------------
\* State
\* ------------------------------------------------------------------------
VARIABLES
    release,    \* which documents release_dir.glob("**/*-mal.json") can yield
    done,       \* the documents the file loop has taken, in glob order
    result,     \* result: year -> season_key -> items
    pc,         \* "loop", "done" (printed) or "aborted" (an exception left main)
    stdout      \* the documents printed

vars == <<release, done, result, pc, stdout>>

Init ==
    /\ release \in {"seasons", "items"}
    /\ done = <<>>
    /\ result = <<>>
    /\ pc = "loop"
    /\ stdout = <<>>

\* one iteration of `for json_file in release_dir.glob(...)`
ProcessFile(data) ==
    /\ pc = "loop"
    /\ Len(done) < FileCap(release)
    /\ done' = Append(done, data)
    /\ LET body == LoopBody(result, data)
       IN /\ result' = body.result
          /\ pc' = IF body.raised THEN "aborted" ELSE "loop"
    /\ UNCHANGED <<release, stdout>>

\* the glob is exhausted: sort and print
PrintResult ==
    /\ pc = "loop"
    /\ stdout' = Append(stdout, SortedResult(result))
    /\ pc' = "done"
    /\ UNCHANGED <<release, done, result>>

Next ==
    \/ \E data \in Docs(release) : ProcessFile(data)
    \/ PrintResult

Spec == Init /\ [][Next]_vars

\* ------------------------------------------------------------------------
\* The file loop run over a whole list of documents
\* ------------------------------------------------------------------------
RECURSIVE RunAll(_, _)
RunAll(docs, result0) ==
    IF docs = <<>> THEN [raised |-> FALSE, result |-> result0]
    ELSE LET body == LoopBody(result0, Head(docs))
         IN IF body.raised THEN body ELSE RunAll(Tail(docs), body.result)

Reverse(q) == [i \in 1..Len(q) |-> q[Len(q) + 1 - i]]

\* ------------------------------------------------------------------------
\* Vocabulary of the properties
\* ------------------------------------------------------------------------
Running == pc # "aborted"
Printed == pc = "done" /\ Len(stdout) = 1

\* what lines 58-64 make of each season value of the documents
SeasonInfo ==
    [s \in SeasonStrings \cup {Str(y2026 \o sWinter)} |->
        LET season == IF s.kind = "absent" THEN <<>> ELSE s.s
        IN IF Matches(season)
           THEN [ok |-> TRUE, year |-> Year(season), name |-> SeasonName(season),
                 key |-> SeasonKey(SeasonName(season))]
           ELSE [ok |-> FALSE, year |-> <<>>, name |-> <<>>, key |-> <<>>]]

\* documents taken so far whose season the pattern of the code accepts
AcceptedIdx == {i \in 1..Len(done) : done[i].valid_json /\ SeasonInfo[done[i].season].ok}
YearAt(i) == SeasonInfo[done[i].season].year
NameAt(i) == SeasonInfo[done[i].season].name
KeyAt(i) == <<YearAt(i), SeasonInfo[done[i].season].key>>

EntrySet(d) ==
    UNION {{<<d[i].k, d[i].v[j].k>> : j \in 1..Len(d[i].v)} : i \in 1..Len(d)}
Entry(d, y, k) == Lookup(Lookup(d, y), k)
HasEntry(d, y, k) == HasKey(d, y) /\ HasKey(Lookup(d, y), k)

Max(S) == CHOOSE x \in S : \A y \in S : y <= x
Min(S) == CHOOSE x \in S : \A y \in S : x <= y
SourcesOf(y, k) == {i \in AcceptedIdx : KeyAt(i) = <<y, k>>}
LastIdx(y, k) == Max(SourcesOf(y, k))
FirstIdx(y, k) == Min(SourcesOf(y, k))

\* the inclusion rule as the specification words it
SkipWords == {"unconfirmed", "error"}
ClaimKept(item) ==
    /\ ~(item.status.kind = "str" /\ item.status.s \in SkipWords)
    /\ item.bgm_id.kind \notin {"absent", "null"}
    /\ item.bgm_id # JInt(0)
    /\ item.bgm_id # JStr("")
KeptIdx(items) == {i \in 1..Len(items) : ClaimKept(items[i])}
NthKept(items, j) ==
    CHOOSE i \in KeptIdx(items) : Cardinality({h \in KeptIdx(items) : h <= i}) = j

\* the season table as the specification words it
CanonNames == {sWinter, sSpring, sSummer, sFall}
CanonCodes == {<<"1">>, <<"4">>, <<"7">>, <<"1", "0">>}
ClaimTable == {<<sWinter, <<"1">>>>, <<sSpring, <<"4">>>>,
               <<sSummer, <<"7">>>>, <<sFall, <<"1", "0">>>>}
ClaimCode(name) ==
    IF name \in CanonNames THEN (CHOOSE p \in ClaimTable : p[1] = name)[2] ELSE name
CodeRank(k) ==
    IF k = <<"1">> THEN 1 ELSE IF k = <<"4">> THEN 2
    ELSE IF k = <<"7">> THEN 3 ELSE 4

DigitVal(c) == CHOOSE v \in 0..9 : Alphabet[v + 2] = c
YearNum(y) ==
    DigitVal(y[1]) * 1000 + DigitVal(y[2]) * 100 + DigitVal(y[3]) * 10 + DigitVal(y[4])

\* the season pattern as the specification words it: ^(\d{4})-(\w+)$
FullMatch(season) ==
    /\ Len(season) >= 6
    /\ \A i \in 1..4 : season[i] \in Digits
    /\ season[5] = "-"
    /\ \A i \in 6..Len(season) : season[i] \in WordChars

C2_OrderIndependent ==
    Printed => stdout[1] = SortedResult(RunAll(Reverse(done), <<>>).result)

\* ------------------------------------------------------------------------
\* C3
\* ------------------------------------------------------------------------
\* C3: only a file whose whole season string matches ^(\d{4})-(\w+)$ adds an
\* entry; any other file is skipped without an error and adds nothing.
C3_FullMatchOnly ==
    /\ Running =>
         \A e \in EntrySet(result) :
            \E i \in 1..Len(done) :
               /\ done[i].valid_json /\ FullMatch(SeasonOf(done[i])) /\ KeyAt(i) = e
    /\ (done # <<>> /\ done[Len(done)].valid_json
          /\ ~FullMatch(SeasonOf(done[Len(done)]))) => Running

\* ------------------------------------------------------------------------
\* C4
\* ------------------------------------------------------------------------
ExampleDocs ==
    <<[valid_json |-> TRUE, season |-> Str(y2025 \o sFall), items |-> NoItems],
      [valid_json |-> TRUE, season |-> Str(y2025 \o sWinter), items |-> NoItems],
      [valid_json |-> TRUE, season |-> Str(y2025 \o sSummer), items |-> NoItems],
      [valid_json |-> TRUE, season |-> Str(y2024 \o sSpring), items |-> NoItems]>>
ExampleOutput == SortedResult(RunAll(ExampleDocs, <<>>).result)

\* C4: in the printed document the years ascend; within a year the codes
\* "1" < "4" < "7" < "10" come first in that order and every other code follows
\* them, the other codes in the order of their first insertion into the year;
\* the four files of the example print years 2024, 2025 and seasons 1, 7, 10
\* (the example does not depend on the state and is evaluated before the loop).
C4_SortOrder ==
    /\ Printed =>
         LET doc == stdout[1]
         IN /\ \A i, j \in 1..Len(doc) :
                  i < j => YearNum(doc[i].k) < YearNum(doc[j].k)
            /\ \A y \in 1..Len(doc) : \A i, j \in 1..Len(doc[y].v) :
                  i < j =>
                     LET a == doc[y].v[i].k
                         b == doc[y].v[j].k
                     IN /\ (a \in CanonCodes /\ b \in CanonCodes)
                             => CodeRank(a) < CodeRank(b)
                        /\ a \notin CanonCodes =>
                             /\ b \notin CanonCodes
                             /\ FirstIdx(doc[y].k, a) < FirstIdx(doc[y].k, b)
    /\ done = <<>> =>
         /\ Keys(ExampleOutput) = <<Year(y2024 \o sSpring), Year(y2025 \o sFall)>>
         /\ Keys(ExampleOutput[2].v) = <<<<"1">>, <<"7">>, <<"1", "0">>>>

\* one year holds two other codes, inserted against their alphabetical order,
\* and a canonical code inserted after them and printed first
C4_Witness ==
    /\ Printed
    /\ \E y \in 1..Len(result) :
         /\ Len(result[y].v) = 3
         /\ result[y].v[1].k \notin CanonCodes
         /\ result[y].v[2].k \notin CanonCodes
         /\ StrLess(result[y].v[2].k, result[y].v[1].k)
         /\ result[y].v[3].k \in CanonCodes
         /\ \E o \in 1..Len(stdout[1]) :
              /\ stdout[1][o].k = result[y].k
              /\ stdout[1][o].v[1].k = result[y].v[3].k
              /\ stdout[1][o].v[2].k = result[y].v[1].k

\* ------------------------------------------------------------------------
\* C5
\* ------------------------------------------------------------------------
\* C5 as stated: every accepted file is stored under the code of its season
\* name, a key "1", "4", "7" or "10" always denotes winter, spring, summer or
\* fall, and files with different (year, season name) pairs never share a key.
C5_KeysNeverShared ==
    Running =>
        /\ \A i \in AcceptedIdx : HasEntry(result, YearAt(i), ClaimCode(NameAt(i)))
        /\ \A i \in AcceptedIdx :
              KeyAt(i)[2] \in CanonCodes => NameAt(i) \in CanonNames
        /\ \A i, j \in AcceptedIdx :
              <<YearAt(i), NameAt(i)>> # <<YearAt(j), NameAt(j)>> => KeyAt(i) # KeyAt(j)

\* C5 amended: every accepted file is stored under output[year][code] with code
\* "1", "4", "7", "10" for winter, spring, summer, fall and the name itself
\* otherwise; a key "1", "4", "7" or "10" denotes that season or a file whose
\* season name is the code itself; two accepted files share a key exactly when
\* their years are equal and their names are equal or one is the code of the other.
C5_SeasonCodes ==
    Running =>
        /\ \A i \in AcceptedIdx : HasEntry(result, YearAt(i), ClaimCode(NameAt(i)))
        /\ (done # <<>> /\ Len(done) \in AcceptedIdx) =>
              Entry(result, YearAt(Len(done)), ClaimCode(NameAt(Len(done))))
                 = ItemLoop(ItemsOf(done[Len(done)]), <<>>).items
        /\ \A i \in AcceptedIdx :
              LET k == KeyAt(i)
              IN (HasEntry(result, k[1], k[2]) /\ k[2] \in CanonCodes) =>
                    \/ <<NameAt(i), k[2]>> \in ClaimTable
                    \/ NameAt(i) = k[2]
        /\ \A i, j \in AcceptedIdx :
              i < j =>
                 ((KeyAt(i) = KeyAt(j)) <=>
                    /\ YearAt(i) = YearAt(j)
                    /\ \/ NameAt(i) = NameAt(j)
                       \/ <<NameAt(i), NameAt(j)>> \in ClaimTable
                       \/ <<NameAt(j), NameAt(i)>> \in ClaimTable)

\* "2025-winter" and "2025-1" were both stored, under the one key "1"; a
\* non-canonical name was stored under itself
C5_Witness ==
    /\ Running /\ Len(done) = 3 /\ AcceptedIdx = {1, 2, 3}
    /\ NameAt(1) = sWinter /\ NameAt(2) = <<"1">> /\ YearAt(1) = YearAt(2)
    /\ NameAt(3) \notin CanonNames \cup CanonCodes
    /\ EntrySet(result) = {<<YearAt(1), <<"1">>>>, <<YearAt(3), NameAt(3)>>}

\* ------------------------------------------------------------------------
\* C6
\* ------------------------------------------------------------------------
\* C6: a file that does not parse aborts the run with nothing printed, wherever
\* it comes in the processing order; the document is printed at most once and
\* only when every file taken was read and processed without an exception.
C6_NoPartialOutput ==
    /\ Len(stdout) <= 1
    /\ (\E i \in 1..Len(done) : ~done[i].valid_json) =>
          pc = "aborted" /\ stdout = <<>>
    /\ pc = "aborted" => stdout = <<>>
    /\ stdout # <<>> =>
          /\ pc = "done"
          /\ \A i \in 1..Len(done) : done[i].valid_json
          /\ \A i \in 1..Len(done) : ~LoopBody(<<>>, done[i]).raised

\* a malformed file came third, after two files that had stored entries
C6_Witness ==
    /\ pc = "aborted" /\ Len(done) = 3 /\ stdout = <<>>
    /\ ~done[3].valid_json
    /\ AcceptedIdx = {1, 2} /\ Len(result) = 2

\* ------------------------------------------------------------------------
\* C7
\* ------------------------------------------------------------------------
ClaimRating(r) ==
    IF r = JStr("general") THEN JStr("gnr") ELSE IF r = JAbsent THEN JNull ELSE r
ClaimCompact(item) ==
    [id |-> item.bgm_id,
     m |-> IF item.mal.kind = "object" /\ item.mal.media_type # JAbsent
           THEN item.mal.media_type ELSE JNull,
     r |-> IF item.mal.kind = "object" THEN ClaimRating(item.mal.rating) ELSE JNull]

\* C7: every included item gives exactly one CompactItem {id, m, r} with id the
\* bgm_id, m the media type and r the mapped rating; an absent or null mal,
\* media_type or rating gives null and the run does not fail.
C7_CompactItem ==
    (done # <<>> /\ \A i \in 1..Len(done) : done[i].valid_json) =>
        /\ Running
        /\ Len(done) \in AcceptedIdx =>
             LET n == Len(done)
                 items == ItemsOf(done[n])
                 stored == Entry(result, YearAt(n), KeyAt(n)[2])
             IN /\ Len(stored) = Cardinality(KeptIdx(items))
                /\ \A j \in 1..Len(stored) :
                      stored[j] = ClaimCompact(items[NthKept(items, j)])

\* ------------------------------------------------------------------------
\* C8
\* ------------------------------------------------------------------------
\* C8: when several accepted files resolve to one (year, season code) pair, the
\* list of that pair is exactly the list of the file processed last among them,
\* also when that list is empty, with nothing of an earlier file left in it; the
\* entries of the other pairs stay those of their own last files.
C8_LastFileWins ==
    /\ Running =>
         \A e \in EntrySet(result) :
            Entry(result, e[1], e[2])
               = ItemLoop(ItemsOf(done[LastIdx(e[1], e[2])]), <<>>).items
    /\ Printed =>
         \A e \in EntrySet(stdout[1]) :
            Entry(stdout[1], e[1], e[2])
               = ItemLoop(ItemsOf(done[LastIdx(e[1], e[2])]), <<>>).items

\* a file with a kept item was overwritten by a later file of the same pair that
\* yields the empty list, while another pair kept its own list
C8_Witness ==
    /\ Printed /\ Len(done) = 3 /\ AcceptedIdx = {1, 2, 3}
    /\ KeyAt(1) = KeyAt(3) /\ KeyAt(2) # KeyAt(1)
    /\ ItemLoop(ItemsOf(done[1]), <<>>).items # <<>>
    /\ ItemLoop(ItemsOf(done[2]), <<>>).items # <<>>
    /\ Entry(stdout[1], KeyAt(1)[1], KeyAt(1)[2]) = <<>>
    /\ Entry(stdout[1], KeyAt(2)[1], KeyAt(2)[2]) # <<>>

\* ------------------------------------------------------------------------
\* C9
\* ------------------------------------------------------------------------
\* C9: every printed list is the order-preserving image of the included items
\* of its source file: as long as the number of included items, its j-th
\* element made from the j-th included item; equal bgm_ids are neither merged
\* nor moved by the final sort.
C9_OrderPreserved ==
    Printed =>
        \A e \in EntrySet(stdout[1]) :
           LET items == ItemsOf(done[LastIdx(e[1], e[2])])
               list == Entry(stdout[1], e[1], e[2])
           IN /\ Len(list) = Cardinality(KeptIdx(items))
              /\ \A j \in 1..Len(list) : list[j] = CompactItem(items[NthKept(items, j)])

\* a printed list of two different CompactItems with the same id, whose source
\* file had a dropped item between them
C9_Witness ==
    /\ Printed /\ Len(done) = 1 /\ AcceptedIdx = {1}
    /\ Len(ItemsOf(done[1])) = 3
    /\ ~ClaimKept(ItemsOf(done[1])[2])
    /\ LET list == Entry(stdout[1], KeyAt(1)[1], KeyAt(1)[2])
       IN /\ Len(list) = 2
          /\ list[1].id = list[2].id
          /\ list[1] # list[2]

\* ------------------------------------------------------------------------
\* C10
\* ------------------------------------------------------------------------
NoDuplicates(q) == \A i, j \in 1..Len(q) : q[i] = q[j] => i = j

\* C10: every accepted file creates its (year, season code) entry, an empty list
\* when its items are missing or all dropped; every printed year holds at least
\* one season, and the printed keys are exactly the keys of the accepted files.
C10_KeysOfAcceptedFiles ==
    /\ Running =>
         /\ EntrySet(result) = {KeyAt(i) : i \in AcceptedIdx}
         /\ \A i \in AcceptedIdx :
               (i = LastIdx(KeyAt(i)[1], KeyAt(i)[2]) /\ KeptIdx(ItemsOf(done[i])) = {})
                  => Entry(result, KeyAt(i)[1], KeyAt(i)[2]) = <<>>
    /\ Printed =>
         /\ EntrySet(stdout[1]) = {KeyAt(i) : i \in AcceptedIdx}
         /\ NoDuplicates(Keys(stdout[1]))
         /\ \A y \in 1..Len(stdout[1]) :
               /\ Len(stdout[1][y].v) >= 1
               /\ NoDuplicates(Keys(stdout[1][y].v))

\* printed: one file without an items key and one whose items were all dropped,
\* each with its empty list, next to a file that was skipped
C10_Witness ==
    /\ Printed /\ Len(done) = 3 /\ AcceptedIdx = {1, 2}
    /\ done[1].items.kind = "absent"
    /\ done[2].items.kind = "list" /\ ItemsOf(done[2]) # <<>>
    /\ KeyAt(1) # KeyAt(2)
    /\ Entry(stdout[1], KeyAt(1)[1], KeyAt(1)[2]) = <<>>
    /\ Entry(stdout[1], KeyAt(2)[1], KeyAt(2)[2]) = <<>>

====
